---- MODULE Spec2Model ----
(***************************************************************************)
(* Model of homework.py: the fitness-tracker calculation hierarchy         *)
(* (Training, Running, SportsWalking, Swimming), the InfoMessage report    *)
(* and the read_package dispatcher.                                        *)
(*                                                                         *)
(* Numbers are exact rationals <<n, d>> (d > 0, lowest terms); Python's    *)
(* None is the empty tuple.  A call either returns a value or raises: its  *)
(* outcome is a record [err, val], err = "none" on a normal return.        *)
(***************************************************************************)
EXTENDS Integers, Sequences, FiniteSets, TLC

VARIABLES
    workout_type,   \* code given to read_package ("" for a direct Training(...))
    data,           \* argument list given to the constructor call
    training,       \* the instance that call returned, NoTraining before it
                    \* and if it raised
    op,             \* the most recent call
    err,            \* exception that call raised, "none" if it returned
    ret,            \* number (or None) returned by the most recent accessor
    info,           \* InfoMessage returned by the latest show_training_info
    prevInfo,       \* InfoMessage returned by the one before, same instance
    message,        \* string returned by the latest get_message
    stdout          \* line main printed last for this instance

vars == <<workout_type, data, training, op, err, ret, info, prevInfo,
          message, stdout>>

-----------------------------------------------------------------------------
(* Bounds of the explored inputs *)

MaxLen == 6

\* Values tried at each position of the flat argument list.
ArgVals(i) ==
    CASE i = 1 -> {0, 720, 9000, 15000}
      [] i = 2 -> {0, 1, 2}
      [] i = 3 -> {75, 80}
      [] i = 4 -> {0, 25, 180}
      [] i = 5 -> {0, 40}
      [] OTHER -> {7}

RECURSIVE Lists(_)
Lists(n) ==
    IF n = 0 THEN {<<>>}
    ELSE {Append(s, v) : s \in Lists(n - 1), v \in ArgVals(n)}

DataLists == UNION {Lists(n) : n \in 0..MaxLen}

\* Codes tried by the dispatcher: the three it knows and two it does not.
Codes == {"SWM", "RUN", "WLK", "XYZ", "TRN"}

-----------------------------------------------------------------------------
(* Exact rational arithmetic standing for Python's float arithmetic *)

None == <<>>

Abs(x) == IF x < 0 THEN -x ELSE x

RECURSIVE GCD(_, _)
GCD(a, b) == IF b = 0 THEN a ELSE GCD(b, a % b)

\* n/d in lowest terms with a positive denominator (d # 0).
Norm(n, d) ==
    LET g == GCD(Abs(n), Abs(d))
        s == IF d < 0 THEN -1 ELSE 1
    IN  <<(s * n) \div g, (s * d) \div g>>

Num(i) == <<i, 1>>
Frac(n, d) == Norm(n, d)

\* Common factors are cancelled before multiplying, so that intermediate
\* products stay small.
Add(x, y) ==
    LET g == GCD(x[2], y[2])
    IN  Norm(x[1] * (y[2] \div g) + y[1] * (x[2] \div g),
             (x[2] \div g) * y[2])
Neg(x) == <<-x[1], x[2]>>
Sub(x, y) == Add(x, Neg(y))
Mul(x, y) ==
    LET g1 == GCD(Abs(x[1]), y[2])
        g2 == GCD(Abs(y[1]), x[2])
    IN  Norm((x[1] \div g1) * (y[1] \div g2), (x[2] \div g2) * (y[2] \div g1))
Recip(y) == IF y[1] < 0 THEN <<-y[2], -y[1]>> ELSE <<y[2], y[1]>>
Div(x, y) == Mul(x, Recip(y))

\* x // y: the floor of the quotient, as a number.
FloorDiv(x, y) ==
    LET q == Div(x, y) IN <<q[1] \div q[2], 1>>

\* Outcomes of a call.
Ok(v) == [err |-> "none", val |-> v]
Raise(e) == [err |-> e, val |-> None]

-----------------------------------------------------------------------------
(* class Training and its subclasses *)

M_IN_KM == 1000

\* The class attribute LEN_STEP as looked up through an instance of cls.
LEN_STEP(cls) == IF cls = "Swimming" THEN Frac(138, 100) ELSE Frac(65, 100)

NoTraining == [cls |-> "None"]

\* Mutant: surplus positional arguments are swallowed instead of rejected.
Training_init_lenient(cls, args) ==
    IF Len(args) < 3 THEN Raise("TypeError")
    ELSE Ok([cls |-> cls, action |-> args[1], duration |-> args[2],
             weight |-> args[3]])

Training_init(cls, args) ==
    IF Len(args) # 3 THEN Raise("TypeError")
    ELSE Ok([cls |-> cls, action |-> args[1], duration |-> args[2],
             weight |-> args[3]])

SportsWalking_init(cls, args) ==
    IF Len(args) # 4 THEN Raise("TypeError")
    ELSE LET base == Training_init(cls, SubSeq(args, 1, 3)).val
         IN  Ok([cls |-> cls, action |-> base.action,
                 duration |-> base.duration, weight |-> base.weight,
                 height |-> args[4]])

\* Mutant: the two pool arguments are stored the wrong way round.
Swimming_init_swapped(cls, args) ==
    IF Len(args) # 5 THEN Raise("TypeError")
    ELSE Ok([cls |-> cls, action |-> args[1], duration |-> args[2],
             weight |-> args[3],
             length_pool |-> args[5], count_pool |-> args[4]])

Swimming_init(cls, args) ==
    IF Len(args) # 5 THEN Raise("TypeError")
    ELSE LET base == Training_init(cls, SubSeq(args, 1, 3)).val
         IN  Ok([cls |-> cls, action |-> base.action,
                 duration |-> base.duration, weight |-> base.weight,
                 length_pool |-> args[4], count_pool |-> args[5]])

\* cls(*args): the constructor the class defines or inherits.
New(cls, args) ==
    CASE cls = "SportsWalking" -> SportsWalking_init(cls, args)
      [] cls = "Swimming"      -> Swimming_init(cls, args)
      [] OTHER                 -> Training_init(cls, args)

Training_get_distance(self) ==
    Ok(Div(Mul(Num(self.action), LEN_STEP(self.cls)), Num(M_IN_KM)))

Swimming_get_distance(self) ==
    Ok(Div(Mul(Num(self.action), LEN_STEP(self.cls)), Num(M_IN_KM)))

\* self.get_distance(): resolved on the instance's class.
get_distance(self) ==
    IF self.cls = "Swimming" THEN Swimming_get_distance(self)
    ELSE Training_get_distance(self)

Training_get_mean_speed(self) ==
    LET distance == get_distance(self)
    IN  IF self.duration = 0 THEN Raise("ZeroDivisionError")
        ELSE Ok(Div(distance.val, Num(self.duration)))

\* Mutant: the override is dropped, the speed follows the stroke count.
Swimming_get_mean_speed_inherited(self) ==
    IF self.duration = 0 THEN Raise("ZeroDivisionError")
    ELSE Ok(Div(Div(Mul(Num(self.action), LEN_STEP(self.cls)), Num(M_IN_KM)),
                Num(self.duration)))

\* Mutant: the pool distance is added to the stroke distance.
Swimming_get_mean_speed_plus_strokes(self) ==
    IF self.duration = 0 THEN Raise("ZeroDivisionError")
    ELSE Ok(Div(Add(Div(Num(self.length_pool * self.count_pool),
                        Num(M_IN_KM)),
                    Div(Mul(Num(self.action), LEN_STEP(self.cls)),
                        Num(M_IN_KM))),
                Num(self.duration)))

Swimming_get_mean_speed(self) ==
    IF self.duration = 0 THEN Raise("ZeroDivisionError")
    ELSE Ok(Div(Div(Num(self.length_pool * self.count_pool), Num(M_IN_KM)),
                Num(self.duration)))

get_mean_speed(self) ==
    IF self.cls = "Swimming" THEN Swimming_get_mean_speed(self)
    ELSE Training_get_mean_speed(self)

\* The body is `pass`: the call returns None.
Training_get_spent_calories(self) == Ok(None)

Running_get_spent_calories(self) ==
    LET coeff_1 == Num(18)
        coeff_2 == Num(20)
        speed == get_mean_speed(self)
    IN  IF speed.err # "none" THEN speed
        ELSE Ok(Mul(Mul(Div(Mul(Sub(Mul(coeff_1, speed.val), coeff_2),
                                Num(self.weight)),
                            Num(M_IN_KM)),
                        Num(self.duration)),
                    Num(60)))

\* Mutant: true division where the code floor-divides.
SportsWalking_get_spent_calories_truediv(self) ==
    LET coeff_1 == Frac(35, 1000)
        coeff_3 == Frac(29, 1000)
        speed == get_mean_speed(self)
    IN  IF speed.err # "none" THEN speed
        ELSE IF self.height = 0 THEN Raise("ZeroDivisionError")
        ELSE Ok(Mul(Mul(Add(Mul(coeff_1, Num(self.weight)),
                            Mul(Mul(Div(Mul(speed.val, speed.val),
                                        Num(self.height)),
                                    coeff_3),
                                Num(self.weight))),
                        Num(self.duration)),
                    Num(60)))

SportsWalking_get_spent_calories(self) ==
    LET coeff_1 == Frac(35, 1000)
        coeff_3 == Frac(29, 1000)
        speed == get_mean_speed(self)
    IN  IF speed.err # "none" THEN speed
        ELSE IF self.height = 0 THEN Raise("ZeroDivisionError")
        ELSE Ok(Mul(Mul(Add(Mul(coeff_1, Num(self.weight)),
                            Mul(Mul(FloorDiv(Mul(speed.val, speed.val),
                                             Num(self.height)),
                                    coeff_3),
                                Num(self.weight))),
                        Num(self.duration)),
                    Num(60)))

Swimming_get_spent_calories(self) ==
    LET coeff_1 == Frac(11, 10)
        coeff_2 == Num(2)
        speed == get_mean_speed(self)
    IN  IF speed.err # "none" THEN speed
        ELSE Ok(Mul(Mul(Add(speed.val, coeff_1), coeff_2), Num(self.weight)))

get_spent_calories(self) ==
    CASE self.cls = "Running"       -> Running_get_spent_calories(self)
      [] self.cls = "SportsWalking" -> SportsWalking_get_spent_calories(self)
      [] self.cls = "Swimming"      -> Swimming_get_spent_calories(self)
      [] OTHER                      -> Training_get_spent_calories(self)

-----------------------------------------------------------------------------
(* class InfoMessage *)

\* format(x, '.3f'): the number of thousandths printed, nearest with ties to
\* even.
Fmt3(x) ==
    LET t == x[1] * 1000
        q == t \div x[2]
        r == t - q * x[2]
    IN  IF 2 * r > x[2] \/ (2 * r = x[2] /\ q % 2 = 1) THEN q + 1 ELSE q

NoInfo == [training_type |-> "None"]
NoLine == <<>>

\* InfoMessage(training_type, duration, distance, speed, calories): the
\* f-string of the constructor raises TypeError on a None field.
InfoMessage_init(training_type, duration, distance, speed, calories) ==
    IF None \in {duration, distance, speed, calories} THEN Raise("TypeError")
    ELSE Ok([training_type |-> training_type,
             duration |-> duration,
             distance |-> distance,
             speed |-> speed,
             calories |-> calories,
             massage |-> <<training_type, Fmt3(duration), Fmt3(distance),
                           Fmt3(speed), Fmt3(calories)>>])

get_message(self) == self.massage

\* Mutant: the report is assembled from the base class's own methods.
show_training_info_static(self) ==
    LET distance == Training_get_distance(self)
        speed == Training_get_mean_speed(self)
        calories == get_spent_calories(self)
    IN  IF distance.err # "none" THEN distance
        ELSE IF speed.err # "none" THEN speed
        ELSE IF calories.err # "none" THEN calories
        ELSE InfoMessage_init(self.cls, Num(self.duration), distance.val,
                              speed.val, calories.val)

\* Training.show_training_info, inherited unchanged by every subclass: the
\* arguments are evaluated left to right and the first exception propagates.
show_training_info(self) ==
    LET distance == get_distance(self)
        speed == get_mean_speed(self)
        calories == get_spent_calories(self)
    IN  IF distance.err # "none" THEN distance
        ELSE IF speed.err # "none" THEN speed
        ELSE IF calories.err # "none" THEN calories
        ELSE InfoMessage_init(self.cls, Num(self.duration), distance.val,
                              speed.val, calories.val)

-----------------------------------------------------------------------------
(* Module-level functions *)

dict_workout_type ==
    [c \in {"SWM", "RUN", "WLK"} |->
        CASE c = "SWM" -> "Swimming"
          [] c = "RUN" -> "Running"
          [] c = "WLK" -> "SportsWalking"]

\* Mutant: an unknown code falls back to the base class.
read_package_default(wt, args) ==
    IF wt \notin DOMAIN dict_workout_type THEN New("Training", args)
    ELSE New(dict_workout_type[wt], args)

read_package(wt, args) ==
    IF wt \notin DOMAIN dict_workout_type THEN Raise("KeyError")
    ELSE New(dict_workout_type[wt], args)

-----------------------------------------------------------------------------
(* The state machine: one call per step *)

\* One package, or one direct call of the base class, per behaviour: the
\* inputs are drawn here and the constructor call is the first step.
Init ==
    /\ workout_type \in Codes \cup {""}
    /\ data \in DataLists
    /\ training = NoTraining
    /\ op = "start"
    /\ err = "none"
    /\ ret = None
    /\ info = NoInfo
    /\ prevInfo = NoInfo
    /\ message = NoLine
    /\ stdout = NoLine

\* What a constructor call leaves: the new instance, or none if it raised.
Constructed(r) ==
    /\ training' = IF r.err = "none" THEN r.val ELSE NoTraining
    /\ err' = r.err
    /\ UNCHANGED <<workout_type, data, ret, info, prevInfo, message, stdout>>

\* training = read_package(workout_type, data)
ReadPackage ==
    /\ op = "start"
    /\ workout_type # ""
    /\ op' = "read_package"
    /\ Constructed(read_package(workout_type, data))

\* training = Training(*data): the base class called directly
NewTraining ==
    /\ op = "start"
    /\ workout_type = ""
    /\ op' = "Training"
    /\ Constructed(New("Training", data))

Accessed(name, r) ==
    /\ op' = name
    /\ err' = r.err
    /\ ret' = r.val
    /\ UNCHANGED <<workout_type, data, training, info, prevInfo, message,
                   stdout>>

GetDistance ==
    /\ training # NoTraining
    /\ Accessed("get_distance", get_distance(training))

GetMeanSpeed ==
    /\ training # NoTraining
    /\ Accessed("get_mean_speed", get_mean_speed(training))

\* Mutant: the accessor converts the duration to minutes in place.
GetSpentCalories_in_place ==
    /\ training # NoTraining
    /\ LET r == get_spent_calories(training)
       IN  /\ op' = "get_spent_calories"
           /\ err' = r.err
           /\ ret' = r.val
    /\ training' = [training EXCEPT !.duration = IF @ < 60 THEN @ * 60 ELSE @]
    /\ UNCHANGED <<workout_type, data, info, prevInfo, message, stdout>>

GetSpentCalories ==
    /\ training # NoTraining
    /\ Accessed("get_spent_calories", get_spent_calories(training))

\* Mutant: building a report consumes the instance's action counter.
ShowTrainingInfo_consuming ==
    /\ training # NoTraining
    /\ LET r == show_training_info(training)
       IN  /\ op' = "show_training_info"
           /\ err' = r.err
           /\ IF r.err = "none"
              THEN info' = r.val /\ prevInfo' = info
              ELSE UNCHANGED <<info, prevInfo>>
    /\ training' = [training EXCEPT !.action = 0]
    /\ UNCHANGED <<workout_type, data, ret, message, stdout>>

ShowTrainingInfo ==
    /\ training # NoTraining
    /\ LET r == show_training_info(training)
       IN  /\ op' = "show_training_info"
           /\ err' = r.err
           /\ IF r.err = "none"
              THEN info' = r.val /\ prevInfo' = info
              ELSE UNCHANGED <<info, prevInfo>>
    /\ UNCHANGED <<workout_type, data, training, ret, message, stdout>>

GetMessage ==
    /\ info # NoInfo
    /\ op' = "get_message"
    /\ err' = "none"
    /\ message' = get_message(info)
    /\ UNCHANGED <<workout_type, data, training, ret, info, prevInfo, stdout>>

\* main(training): build the report through the base class and print it.
main ==
    /\ training # NoTraining
    /\ LET r == show_training_info(training)
       IN  /\ op' = "main"
           /\ err' = r.err
           /\ IF r.err = "none"
              THEN /\ info' = r.val
                   /\ prevInfo' = info
                   /\ stdout' = get_message(r.val)
              ELSE UNCHANGED <<info, prevInfo, stdout>>
    /\ UNCHANGED <<workout_type, data, training, ret, message>>

Next ==
    \/ ReadPackage
    \/ NewTraining
    \/ GetDistance
    \/ GetMeanSpeed
    \/ GetSpentCalories
    \/ ShowTrainingInfo
    \/ GetMessage
    \/ main

Spec == Init /\ [][Next]_vars

-----------------------------------------------------------------------------
(* Properties *)

ValidCodes == {"SWM", "RUN", "WLK"}
Concrete == {"Running", "SportsWalking", "Swimming"}
Accessors == {"get_distance", "get_mean_speed", "get_spent_calories",
              "show_training_info", "get_message", "main"}

\* C1: read_package with a code other than SWM, RUN, WLK raises the
\* unknown-code error (KeyError) to its caller, whatever the arguments, and
\* returns no instance.
C1_UnknownCodeFails ==
    (op = "read_package" /\ workout_type \notin ValidCodes)
        => (err = "KeyError" /\ training = NoTraining)

C1_Witness ==
    /\ op = "read_package"
    /\ workout_type = "XYZ"
    /\ Len(data) = 3
    /\ err = "KeyError"

\* C2: read_package with a valid code raises the argument-count error
\* (TypeError) whenever the list is shorter or longer than the variant's
\* arity (RUN 3, WLK 4, SWM 5), and returns no instance.
C2_ArgumentCountMismatch ==
    LET arity == CASE workout_type = "RUN" -> 3
                   [] workout_type = "WLK" -> 4
                   [] workout_type = "SWM" -> 5
    IN  (op = "read_package" /\ workout_type \in ValidCodes
         /\ Len(data) # arity)
            => (err = "TypeError" /\ training = NoTraining)

C2_Witness ==
    /\ op = "read_package"
    /\ workout_type = "RUN"
    /\ Len(data) = 4
    /\ err = "TypeError"

\* C3: read_package with a valid code and a list of the matching length
\* returns an instance of the matching class whose fields are the arguments
\* in order.
C3_PositionalConstruction ==
    /\ (op = "read_package" /\ workout_type = "RUN" /\ Len(data) = 3)
        => (err = "none"
            /\ training = [cls |-> "Running", action |-> data[1],
                           duration |-> data[2], weight |-> data[3]])
    /\ (op = "read_package" /\ workout_type = "WLK" /\ Len(data) = 4)
        => (err = "none"
            /\ training = [cls |-> "SportsWalking", action |-> data[1],
                           duration |-> data[2], weight |-> data[3],
                           height |-> data[4]])
    /\ (op = "read_package" /\ workout_type = "SWM" /\ Len(data) = 5)
        => (err = "none"
            /\ training = [cls |-> "Swimming", action |-> data[1],
                           duration |-> data[2], weight |-> data[3],
                           length_pool |-> data[4], count_pool |-> data[5]])

C3_Witness ==
    /\ op = "read_package"
    /\ workout_type = "SWM"
    /\ data = <<720, 1, 80, 25, 40>>
    /\ training.cls = "Swimming"
    /\ training.length_pool = 25
    /\ training.count_pool = 40

\* C4 (as claimed): get_spent_calories on a base-class instance (here one
\* with valid data) raises and returns nothing, and show_training_info on it
\* yields no InfoMessage.
C4_BaseCaloriesRaises ==
    (training.cls = "Training" /\ training.duration > 0) =>
        /\ op = "get_spent_calories" => err # "none"
        /\ op \in {"show_training_info", "main"}
            => (err # "none" /\ info = NoInfo)

\* C5: two consecutive reports built on the same instance are equal in
\* training_type, duration, distance, speed and calories.
C5_ReportIdempotent ==
    prevInfo # NoInfo =>
        /\ info.training_type = prevInfo.training_type
        /\ info.duration = prevInfo.duration
        /\ info.distance = prevInfo.distance
        /\ info.speed = prevInfo.speed
        /\ info.calories = prevInfo.calories

C5_Witness ==
    /\ op = "show_training_info"
    /\ prevInfo # NoInfo
    /\ info # NoInfo
    /\ training.cls = "SportsWalking"

\* C6: after any sequence of accessor, report and formatting calls the
\* instance still holds the values its constructor was given.
C6_Immutable ==
    (op \in Accessors) =>
        /\ training.action = data[1]
        /\ training.duration = data[2]
        /\ training.weight = data[3]
        /\ training.cls = "SportsWalking" => training.height = data[4]
        /\ training.cls = "Swimming" =>
            (training.length_pool = data[4] /\ training.count_pool = data[5])
        /\ training.cls = "Training" => workout_type = ""
        /\ training.cls \in Concrete =>
            dict_workout_type[workout_type] = training.cls

C6_Witness ==
    /\ op = "get_message"
    /\ ret # None
    /\ prevInfo # NoInfo
    /\ stdout # NoLine
    /\ training.cls = "Swimming"

Less(x, y) == x[1] * y[2] < y[1] * x[2]

\* C7 (as claimed): with action = 0 and duration > 0 every variant has
\* distance 0 and mean speed 0.
C7_ZeroActionAllZero ==
    (training.cls \in Concrete /\ training.action = 0
     /\ training.duration > 0)
        => /\ op = "get_distance" => ret = Num(0)
           /\ op = "get_mean_speed" => ret = Num(0)

\* C7 (amended): with action = 0 and duration > 0 every variant has distance
\* 0; Running and SportsWalking have mean speed 0, while Swimming has mean
\* speed length_pool * count_pool / 1000 / duration, which is 0 only when
\* length_pool * count_pool is.
C7_ZeroAction ==
    (training.cls \in Concrete /\ training.action = 0
     /\ training.duration > 0)
        => /\ op = "get_distance" => (err = "none" /\ ret = Num(0))
           /\ (op = "get_mean_speed"
               /\ training.cls \in {"Running", "SportsWalking"})
                => (err = "none" /\ ret = Num(0))
           /\ (op = "get_mean_speed" /\ training.cls = "Swimming")
                => /\ err = "none"
                   /\ ret = Frac(training.length_pool * training.count_pool,
                                 1000 * training.duration)
                   /\ (ret = Num(0)) <=>
                        (training.length_pool * training.count_pool = 0)

C7_Witness ==
    /\ op = "get_mean_speed"
    /\ training.cls = "Swimming"
    /\ data = <<0, 1, 80, 25, 40>>
    /\ ret = Num(1)

\* C8: Swimming's mean speed is length_pool * count_pool / 1000 / duration
\* and, like its calories, is the same for every action; its distance is
\* action * 1.38 / 1000.
C8_SwimmingSpeedIgnoresAction ==
    (training.cls = "Swimming" /\ training.duration # 0) =>
        /\ op = "get_mean_speed" =>
            /\ err = "none"
            /\ ret = Frac(training.length_pool * training.count_pool,
                          1000 * training.duration)
            /\ \A a \in ArgVals(1) :
                get_mean_speed([training EXCEPT !.action = a]).val = ret
        /\ op = "get_spent_calories" =>
            /\ err = "none"
            /\ \A a \in ArgVals(1) :
                get_spent_calories([training EXCEPT !.action = a]).val = ret
        /\ op = "get_distance" =>
            /\ err = "none"
            /\ ret = Frac(training.action * 138, 100 * 1000)

C8_Witness ==
    /\ op = "get_mean_speed"
    /\ training.cls = "Swimming"
    /\ data = <<720, 1, 80, 25, 40>>
    /\ ret = Num(1)
    /\ get_distance(training).val = Frac(9936, 10000)

\* The walking formula spelled out for the current instance: the squared
\* speed, the largest whole k with k * height <= speed^2, and the calories
\* with the floored and with the exact quotient.
WalkSpeedSq ==
    LET speed == Frac(training.action * 65, 100 * 1000 * training.duration)
    IN  Mul(speed, speed)

WalkFloor ==
    CHOOSE k \in 0..(WalkSpeedSq[1] \div WalkSpeedSq[2]) :
        /\ ~Less(WalkSpeedSq, Num(k * training.height))
        /\ Less(WalkSpeedSq, Num((k + 1) * training.height))

WalkFloored ==
    Frac((35 * training.weight + WalkFloor * 29 * training.weight)
            * training.duration * 60, 1000)

WalkExact ==
    Mul(Add(Frac(35 * training.weight, 1000),
            Mul(Div(WalkSpeedSq, Num(training.height)),
                Frac(29 * training.weight, 1000))),
        Num(training.duration * 60))

WalkBase == Frac(35 * training.weight * training.duration * 60, 1000)

WalkReturned ==
    /\ training.cls = "SportsWalking"
    /\ op = "get_spent_calories"
    /\ err = "none"

\* C9 (as claimed): SportsWalking calories floor-divide speed^2 by height,
\* and whenever speed^2 < height the result is 0.035 * weight * duration * 60
\* and differs from the true-division value.
C9_FloorAlwaysDiffers ==
    WalkReturned =>
        /\ ret = WalkFloored
        /\ Less(WalkSpeedSq, Num(training.height))
            => (ret = WalkBase /\ ret # WalkExact)

\* C9 (amended): SportsWalking calories floor-divide speed^2 by height;
\* whenever speed^2 < height the result is 0.035 * weight * duration * 60,
\* which differs from the true-division value when 0 < speed^2 (action > 0)
\* and coincides with it when action = 0.
C9_FloorDivision ==
    /\ (training.cls = "SportsWalking" /\ op = "get_spent_calories"
        /\ training.duration # 0 /\ training.height # 0) => err = "none"
    /\ WalkReturned =>
        /\ ret = WalkFloored
        /\ Less(WalkSpeedSq, Num(training.height)) => ret = WalkBase
        /\ (Less(Num(0), WalkSpeedSq)
            /\ Less(WalkSpeedSq, Num(training.height))) => ret # WalkExact
        /\ training.action = 0 => ret = WalkExact

C9_Witness ==
    /\ WalkReturned
    /\ data = <<9000, 1, 75, 180>>
    /\ ret = Frac(315, 2)
    /\ ret # WalkExact

\* C10: show_training_info on an instance of a concrete class (valid data:
\* duration and height nonzero), also when called through the base class as
\* main does, returns an InfoMessage named after the instance's own class,
\* with the instance's duration and with the distance, speed and calories
\* that class's own methods give.
C10_ReportOfVariant ==
    (op \in {"show_training_info", "main"} /\ training.cls \in Concrete
     /\ training.duration # 0
     /\ (training.cls = "SportsWalking" => training.height # 0))
        => /\ err = "none"
           /\ info.training_type =
                (CASE workout_type = "RUN" -> "Running"
                   [] workout_type = "WLK" -> "SportsWalking"
                   [] workout_type = "SWM" -> "Swimming")
           /\ info.duration = Num(training.duration)
           /\ info.distance =
                Frac(training.action
                        * (IF training.cls = "Swimming" THEN 138 ELSE 65),
                     100 * 1000)
           /\ info.speed =
                (IF training.cls = "Swimming"
                 THEN Swimming_get_mean_speed(training).val
                 ELSE Training_get_mean_speed(training).val)
           /\ info.calories =
                (CASE training.cls = "Running" ->
                        Running_get_spent_calories(training).val
                   [] training.cls = "SportsWalking" ->
                        SportsWalking_get_spent_calories(training).val
                   [] training.cls = "Swimming" ->
                        Swimming_get_spent_calories(training).val)
           /\ op = "main" => stdout = info.massage

C10_Witness ==
    /\ op = "main"
    /\ training.cls = "Swimming"
    /\ data = <<720, 1, 80, 25, 40>>
    /\ info.training_type = "Swimming"
    /\ info.speed = Num(1)
    /\ info.distance = Frac(9936, 10000)
    /\ stdout = <<"Swimming", 1000, 994, 1000, 336000>>

====
